---- MODULE Spec2Model ----
(***************************************************************************)
(* Model of aider/context_discovery.py: ContextDiscoverer keeps a vector   *)
(* index (llama_index) in step with a list of source files and persists it *)
(* in a per-repository cache directory.                                    *)
(*                                                                         *)
(* Strings the code inspects (relative paths, ignore-file lines, glob      *)
(* patterns) are sequences of one-character strings.  The external index   *)
(* is a map from document id (absolute path) to the sequence of documents  *)
(* inserted under that id and not deleted since.                           *)
(***************************************************************************)
EXTENDS Integers, Sequences, FiniteSets, TLC

\* ------------------------------------------------------------------ bounds
\* Highest modification time external writers reach.
MaxTime == 2
\* Most documents the index holds under one id before the model stops
\* exploring further syncs that would add one more.
MaxGen == 2

\* --------------------------------------------------------------- constants
ChunkSize == 1024
MaxFileSize == 1048576

\* The repository used by the model: the files it can contain.
Files == {"a", "b", "c", "d"}

\* The files the host passes in fnames and editors write; c and d are part
\* of the repository from the start and stay as they are.
Listed == {"a", "b"}

\* os.path.relpath(fname, git_root) of each file.
RelPath ==
  [a |-> <<"a", ".", "p", "y">>,
   b |-> <<"b", ".", "m", "d">>,
   c |-> <<".", "x", "/", "c", ".", "p", "y">>,
   d |-> <<"s", "/", "d", ".", "p", "n", "g">>]

\* File contents the model distinguishes.  size in bytes, nullAt the offset
\* of the first null byte (-1: none), openOk whether open(fname, "rb")
\* succeeds, decodes whether io.read_text returns the text (not None),
\* insertOk whether self.index.insert accepts the document (it raises when
\* the embedding of the text fails).
ContentOf ==
  [text    |-> [size |-> 100,     nullAt |-> -1,   openOk |-> TRUE,  decodes |-> TRUE, insertOk |-> TRUE ],
   empty   |-> [size |-> 0,       nullAt |-> -1,   openOk |-> TRUE,  decodes |-> TRUE, insertOk |-> TRUE ],
   locked  |-> [size |-> 100,     nullAt |-> -1,   openOk |-> FALSE, decodes |-> FALSE, insertOk |-> TRUE ],
   garbled |-> [size |-> 100,     nullAt |-> -1,   openOk |-> TRUE,  decodes |-> FALSE, insertOk |-> TRUE ],
   binary  |-> [size |-> 100,     nullAt |-> 10,   openOk |-> TRUE,  decodes |-> TRUE, insertOk |-> TRUE ],
   latenul |-> [size |-> 3000,    nullAt |-> 2000, openOk |-> TRUE,  decodes |-> TRUE, insertOk |-> TRUE ],
   big     |-> [size |-> 2097152, nullAt |-> -1,   openOk |-> TRUE,  decodes |-> TRUE, insertOk |-> TRUE ],
   poison  |-> [size |-> 100,     nullAt |-> -1,   openOk |-> TRUE,  decodes |-> TRUE, insertOk |-> FALSE]]

ContentNames == DOMAIN ContentOf

\* What the external writers of the model write into each file.
Writable ==
  [a |-> {"text", "empty", "locked", "binary"},
   b |-> {"text", "garbled", "poison", "latenul", "big"}]

\* States of <git_root>/.aiderignore.
IgnoreFiles ==
  { [exists |-> FALSE, readable |-> FALSE, lines |-> <<>>],
    [exists |-> TRUE,  readable |-> FALSE, lines |-> << <<"*", ".", "m", "d">> >>],
    [exists |-> TRUE,  readable |-> TRUE,
     lines |-> << <<"#", "*", ".", "p", "y">>, <<" ">>, <<" ", "*", ".", "m", "d", " ">> >>] }

\* ------------------------------------------------------------ string helpers
StartsWith(s, p) == Len(s) >= Len(p) /\ SubSeq(s, 1, Len(p)) = p

EndsWith(s, p) == Len(s) >= Len(p) /\ SubSeq(s, Len(s) - Len(p) + 1, Len(s)) = p

RECURSIVE LStrip(_)
LStrip(s) == IF s # <<>> /\ Head(s) = " " THEN LStrip(Tail(s)) ELSE s

RECURSIVE RStrip(_)
RStrip(s) ==
  IF s # <<>> /\ s[Len(s)] = " " THEN RStrip(SubSeq(s, 1, Len(s) - 1)) ELSE s

\* str.strip()
Strip(s) == RStrip(LStrip(s))

\* fnmatch.fnmatch(s, pat) for patterns built from literals, "*" and "?".
RECURSIVE FnMatch(_, _)
FnMatch(s, pat) ==
  IF pat = <<>> THEN s = <<>>
  ELSE IF Head(pat) = "*"
       THEN FnMatch(s, Tail(pat)) \/ (s # <<>> /\ FnMatch(Tail(s), pat))
  ELSE IF Head(pat) = "?"
       THEN s # <<>> /\ FnMatch(Tail(s), Tail(pat))
  ELSE s # <<>> /\ Head(s) = Head(pat) /\ FnMatch(Tail(s), Tail(pat))

RECURSIVE MapStrip(_)
MapStrip(ls) == IF ls = <<>> THEN <<>> ELSE <<Strip(Head(ls))>> \o MapStrip(Tail(ls))

IsPatternLine(l) == Strip(l) # <<>> /\ ~StartsWith(l, <<"#">>)

\* The ignore_patterns list built from an ignore file.
LoadIgnorePatterns(ig) ==
  IF ig.exists /\ ig.readable THEN MapStrip(SelectSeq(ig.lines, IsPatternLine))
  ELSE <<>>

MatchesAny(rel, pats) == \E i \in 1..Len(pats) : FnMatch(rel, pats[i])

\* os.walk with dirs[:] pruned of names starting with ".": a file is visited
\* unless one of its directory components starts with ".".
UnderHiddenDir(rel) ==
  \E i \in 1..Len(rel) :
    /\ rel[i] = "."
    /\ (i = 1 \/ rel[i - 1] = "/")
    /\ \E j \in (i + 1)..Len(rel) : rel[j] = "/"

SkipExtensions ==
  { <<".", "D", "S", "_", "S", "t", "o", "r", "e">>,
    <<".", "w", "o", "f", "f", "2">>,
    <<".", "i", "c", "o">>,
    <<".", "p", "n", "g">>,
    <<".", "j", "p", "g">>,
    <<".", "j", "p", "e", "g">>,
    <<".", "g", "i", "f">>,
    <<".", "p", "d", "f">>,
    <<".", "z", "i", "p">>,
    <<".", "t", "a", "r">>,
    <<".", "g", "z">> }

HasSkipExtension(rel) == \E e \in SkipExtensions : EndsWith(rel, e)


\* ------------------------------------------------------------------- state
VARIABLES
  fs,          \* the repository's files: [exists, mtime, content] per file
  clock,       \* latest modification time handed out by a writer
  ignoreFile,  \* the state of <git_root>/.aiderignore
  verbose,     \* self.verbose
  index,       \* self.index: [loaded, docs]; loaded = FALSE is None
  cache,       \* the cache directory: [state, docs]
  last,        \* what the most recent call did (NoCall after an external step)
  retriever,   \* self.retriever: [made, topK]; made = FALSE is None
  qhist,       \* the queries made on this discoverer so far
  wpc,         \* stepwise refresh_index: where the call is
  wtodo,       \* stepwise refresh_index: the rest of files_to_index
  wgot,        \* stepwise refresh_index: the content read for the file at hand
  wver,        \* per document of the index, the mtime of the content it holds
  branch,      \* session branches: [current, saved, left, last]
  session,     \* the coder's chat state: [messages, files]
  review       \* /review-pr: [input, result]

coreVars == <<fs, clock, ignoreFile, verbose, index, cache, last>>

queryVars == <<retriever, qhist>>

stepVars == <<wpc, wtodo, wgot, wver>>

branchVars == <<branch, session>>

vars == <<coreVars, queryVars, stepVars, branchVars, review>>

NoFile == [exists |-> FALSE, mtime |-> 0, content |-> "text"]

NoDocs == [f \in Files |-> <<>>]

\* self.index = None
NoIndex == [loaded |-> FALSE, docs |-> NoDocs]

\* VectorStoreIndex.from_documents([], ...)
EmptyIndex == [loaded |-> TRUE, docs |-> NoDocs]

MissingCache == [state |-> "missing", docs |-> NoDocs]

NoCall ==
  [op |-> "none", fnames |-> {}, hasRoot |-> FALSE,
   fromEmpty |-> FALSE, prevFromEmpty |-> FALSE, sameAsPrev |-> FALSE,
   held |-> FALSE, loadStep |-> "na", restored |-> NoIndex, loadCache |-> "na",
   result |-> "na", new |-> {}, deleted |-> {}, modified |-> <<>>,
   walked |-> FALSE, toIndex |-> <<>>, ops |-> <<>>, log |-> <<>>,
   count |-> 0, persisted |-> FALSE, out |-> <<>>]

\* self.retriever = None
NoRetriever == [made |-> FALSE, topK |-> 0]

\* No query made yet: n queries, builds retrievers constructed, first the
\* top_k of the first query that found an index, lastQ the last query.
NoQueries ==
  [n |-> 0, builds |-> 0, first |-> 0,
   lastQ |-> [topK |-> 0, hadIndex |-> FALSE, built |-> FALSE, used |-> 0,
              ret |-> "na"]]

NoContent == [content |-> "text", ver |-> 0]

\* Session branches (tests/basic/test_branching.py): the branch names in play,
\* and a branch without a saved state.
BranchNames == {"main", "feature"}

NoSnap == [exists |-> FALSE, messages |-> <<>>, files |-> {}, dirty |-> FALSE]

NoBranchOp == [op |-> "none", arg |-> "none", expect |-> NoSnap]

\* Before init_branch_repo: no branch; saved holds each branch's stored state,
\* left the state each branch was in when a checkout last left it.
NoBranches ==
  [current |-> "none", saved |-> [b \in BranchNames |-> NoSnap],
   left |-> [b \in BranchNames |-> NoSnap], last |-> NoBranchOp]

NoSession == [messages |-> <<>>, files |-> {}]

\* No /review-pr command run yet.
NoReview == [done |-> FALSE, input |-> <<>>, result |-> <<>>]

\* ------------------------------------------------------ index (llama_index)
\* self.index.ref_doc_info.keys()
RefDocIds(docs) == {f \in Files : docs[f] # <<>>}

\* doc_info.metadata.get("mtime", 0): the metadata kept for a doc id is that
\* of the first document inserted under it.
StoredMtime(docs, f) == IF docs[f] = <<>> THEN 0 ELSE docs[f][1].mtime

\* self.index.delete_ref_doc(fname, delete_from_docstore=True) for a set
DeleteRefDocs(docs, S) == [f \in Files |-> IF f \in S THEN <<>> ELSE docs[f]]

\* self.index.insert(doc)
InsertDoc(docs, f, doc) == [docs EXCEPT ![f] = Append(@, doc)]

\* ------------------------------------------------------------ refresh_index
\* The order in which os.walk lists the files; the model iterates the path
\* sets in the same order (Python leaves set order unspecified and no branch
\* of refresh_index depends on it).
WalkOrder == <<"a", "b", "c", "d">>

\* Iteration order of the sets: the order of their members in ord.
InOrder(S, ord) == LET In(f) == f \in S IN SelectSeq(ord, In)

SeqSet(s) == {s[i] : i \in 1..Len(s)}

\* Variant: a listed file that is gone from disk counts as modified.
IsModifiedOrMissing(docs, f) ==
  \/ ~fs[f].exists
  \/ fs[f].mtime > StoredMtime(docs, f)

\* lines 109-120
IsModified(docs, f) ==
  /\ fs[f].exists
  /\ fs[f].mtime > StoredMtime(docs, f)

\* Variant: new_files is not reduced by the indexed paths.
ComputePlanNewAll(docs, fnames, ord) ==
  LET existing == RefDocIds(docs)
      Mod(f)   == f \in (fnames \cap existing) /\ IsModified(docs, f)
  IN [new |-> fnames, deleted |-> existing \ fnames,
      modified |-> SelectSeq(ord, Mod)]

\* lines 99-120: the plan (new_files, deleted_files, modified_files)
ComputePlan(docs, fnames, ord) ==
  LET existing == RefDocIds(docs)
      Mod(f)   == f \in (fnames \cap existing) /\ IsModified(docs, f)
  IN [new |-> fnames \ existing, deleted |-> existing \ fnames,
      modified |-> SelectSeq(ord, Mod)]

\* Variant: a storage context other than the index's is persisted.
PersistOther(docs) == [state |-> "valid", docs |-> NoDocs]

\* lines 232-234: self.index.storage_context.persist(str(dname))
Persist(docs) == [state |-> "valid", docs |-> docs]

\* Variant: the early return of lines 122-125 is never taken.
IsUpToDateNever(new, deleted, modified) == FALSE

\* line 122
IsUpToDate(new, deleted, modified) ==
  new = {} /\ deleted = {} /\ modified = <<>>

\* Variant: lines 141-142 missing, modified files are not removed first.
DocsToDeleteOnlyDeleted(deleted, modified) == deleted

\* lines 133-134 and 141-142: the documents removed before indexing
DocsToDelete(deleted, modified) == deleted \cup SeqSet(modified)

\* Variant: the walk without the check of lines 169-171.
WalkAcceptsNoIgnore(f, pats) ==
  /\ fs[f].exists
  /\ ~UnderHiddenDir(RelPath[f])
  /\ ~HasSkipExtension(RelPath[f])
  /\ ~(ContentOf[fs[f].content].size > MaxFileSize)

\* lines 161-198: the files the repository walk appends to files_to_index
WalkAccepts(f, pats) ==
  /\ fs[f].exists
  /\ ~UnderHiddenDir(RelPath[f])
  /\ ~MatchesAny(RelPath[f], pats)
  /\ ~HasSkipExtension(RelPath[f])
  /\ ~(ContentOf[fs[f].content].size > MaxFileSize)

\* Variant: the binary check of lines 206-209 missing.
HasNullInChunkNever(c) == FALSE

\* lines 206-209: b"\0" in f.read(1024)
HasNullInChunk(c) == c.nullAt >= 0 /\ c.nullAt < ChunkSize

\* Variant: the "if not content: continue" of lines 212-213 missing.
HasContentAlways(c) == TRUE

\* lines 211-213: content = self.io.read_text(fname); truthy content
HasContent(c) == c.decodes /\ c.size > 0

\* lines 201-229 for one file: what happens to it
FileOutcome(f) ==
  LET c == ContentOf[fs[f].content] IN
  IF ~fs[f].exists THEN "missing"
  ELSE IF ~c.openOk THEN "readerror"
  ELSE IF HasNullInChunk(c) THEN "binary"
  ELSE IF ~HasContent(c) THEN "nocontent"
  ELSE IF ~c.insertOk THEN "inserterror"
  ELSE "inserted"

\* Variant: the try of lines 204-229 around the loop instead of inside it, so
\* that the first failing file ends the loop.
RECURSIVE IndexLoopStopOnError(_, _)
IndexLoopStopOnError(todo, acc) ==
  IF todo = <<>> THEN acc
  ELSE
    LET f == Head(todo)
        o == FileOutcome(f)
        doc == [mtime |-> fs[f].mtime, content |-> fs[f].content]
        acc1 ==
          [docs  |-> IF o = "inserted" THEN InsertDoc(acc.docs, f, doc) ELSE acc.docs,
           count |-> IF o = "inserted" THEN acc.count + 1 ELSE acc.count,
           ops   |-> IF o = "inserted" THEN Append(acc.ops, <<"ins", f>>) ELSE acc.ops,
           log   |-> Append(acc.log, <<f, o>>),
           out   |-> IF o \in {"readerror", "inserterror"} /\ verbose
                     THEN Append(acc.out, "warning") ELSE acc.out]
    IN IF o \in {"readerror", "inserterror"} THEN acc1
       ELSE IndexLoopStopOnError(Tail(todo), acc1)

\* lines 200-229: the loop over files_to_index
RECURSIVE IndexLoop(_, _)
IndexLoop(todo, acc) ==
  IF todo = <<>> THEN acc
  ELSE
    LET f == Head(todo)
        o == FileOutcome(f)
        doc == [mtime |-> fs[f].mtime, content |-> fs[f].content]
        acc1 ==
          [docs  |-> IF o = "inserted" THEN InsertDoc(acc.docs, f, doc) ELSE acc.docs,
           count |-> IF o = "inserted" THEN acc.count + 1 ELSE acc.count,
           ops   |-> IF o = "inserted" THEN Append(acc.ops, <<"ins", f>>) ELSE acc.ops,
           log   |-> Append(acc.log, <<f, o>>),
           out   |-> IF o \in {"readerror", "inserterror"} /\ verbose
                     THEN Append(acc.out, "warning") ELSE acc.out]
    IN IndexLoop(Tail(todo), acc1)

DelOps(s) == [i \in 1..Len(s) |-> <<"del", s[i]>>]

\* lines 231-237: persist and report, given what the index loop did
SyncResult(skip, new, deleted, modified, walked, toIndex, done) ==
  [call  |-> [skip EXCEPT !.result = "synced",
                          !.new = new, !.deleted = deleted,
                          !.modified = modified, !.walked = walked,
                          !.toIndex = toIndex, !.ops = done.ops,
                          !.log = done.log, !.count = done.count,
                          !.persisted = TRUE,
                          !.out = IF done.count > 0 \/ deleted # {}
                                  THEN Append(done.out, "updated")
                                  ELSE done.out],
   index |-> [loaded |-> TRUE, docs |-> done.docs],
   cache |-> Persist(done.docs)]

\* refresh_index(fnames, git_root) run on index idx with cache directory cch.
\* Returns the fields of the call record together with the index and cache
\* it leaves.
RefreshIndexCall(idx, cch, fnames, hasRoot) ==
  LET skip == [NoCall EXCEPT !.fnames = fnames, !.hasRoot = hasRoot,
                             !.fromEmpty = (idx = EmptyIndex)]
      ord  == WalkOrder
  IN
  IF fnames = {} THEN
    [call |-> [skip EXCEPT !.result = "noop"], index |-> idx, cache |-> cch]
  ELSE IF ~idx.loaded THEN
    \* self.index is None: line 99 raises AttributeError
    [call |-> [skip EXCEPT !.result = "raised"], index |-> idx, cache |-> cch]
  ELSE
    LET plan     == ComputePlan(idx.docs, fnames, ord)
        new      == plan.new
        deleted  == plan.deleted
        modified == plan.modified
    IN
    IF IsUpToDate(new, deleted, modified) THEN
      [call  |-> [skip EXCEPT !.result = "uptodate",
                              !.out = IF verbose THEN <<"uptodate">> ELSE <<>>],
       index |-> idx, cache |-> cch]
    ELSE
      LET Del(f)  == f \in DocsToDelete(deleted, modified)
          delSeq  == SelectSeq(InOrder(deleted, ord) \o modified, Del)
          docs1   == DeleteRefDocs(idx.docs, DocsToDelete(deleted, modified))
          listed  == InOrder(new, ord) \o modified
          walked  == listed = <<>> /\ hasRoot
          pats    == LoadIgnorePatterns(ignoreFile)
          Acc(f)  == WalkAccepts(f, pats)
          toIndex == IF walked THEN SelectSeq(ord, Acc) ELSE listed
          start   == [docs |-> docs1, count |-> 0,
                      ops |-> DelOps(delSeq),
                      log |-> <<>>,
                      out |-> << <<"updating", Cardinality(new), Len(modified),
                                   Cardinality(deleted)>> >>]
      IN SyncResult(skip, new, deleted, modified, walked, toIndex,
                    IndexLoop(toIndex, start))

\* Variant: lines 80-86 missing, no empty index is created.
LoadStepNoCreate(idx, cch, rmOk) ==
  IF cch.state = "missing" THEN
    [step |-> "nodir", index |-> idx, cache |-> cch, out |-> <<>>]
  ELSE IF cch.state = "valid" THEN
    [step |-> "loaded", index |-> [loaded |-> TRUE, docs |-> cch.docs],
     cache |-> cch, out |-> IF verbose THEN <<"loaded">> ELSE <<>>]
  ELSE
    [step |-> "failed", index |-> idx,
     cache |-> IF rmOk THEN MissingCache ELSE cch,
     out |-> IF verbose THEN <<"loadfailed">> ELSE <<>>]

\* lines 65-86: the load step.  rmOk: whether shutil.rmtree(dname,
\* ignore_errors=True) managed to delete the directory.
LoadStep(idx, cch, rmOk) ==
  LET tried ==
        IF cch.state = "missing" THEN
          [step |-> "nodir", index |-> idx, cache |-> cch, out |-> <<>>]
        ELSE IF cch.state = "valid" THEN
          [step |-> "loaded", index |-> [loaded |-> TRUE, docs |-> cch.docs],
           cache |-> cch, out |-> IF verbose THEN <<"loaded">> ELSE <<>>]
        ELSE
          [step |-> "failed", index |-> idx,
           cache |-> IF rmOk THEN MissingCache ELSE cch,
           out |-> IF verbose THEN <<"loadfailed">> ELSE <<>>]
  IN
  IF tried.index.loaded THEN tried
  ELSE [tried EXCEPT !.index = EmptyIndex, !.out = Append(@, "creating")]

WithinGen(docs) == \A f \in Files : Len(docs[f]) <= MaxGen

\* ----------------------------------------------------------------- actions
Init ==
  /\ fs = [f \in Files |-> [exists |-> TRUE, mtime |-> 1, content |-> "text"]]
  /\ clock = 1
  /\ ignoreFile = [exists |-> FALSE, readable |-> FALSE, lines |-> <<>>]
  /\ verbose \in BOOLEAN
  /\ index = NoIndex
  /\ cache = MissingCache
  /\ last = NoCall
  /\ retriever = NoRetriever
  /\ qhist = NoQueries
  /\ wpc = "idle"
  /\ wtodo = <<>>
  /\ wgot = NoContent
  /\ wver = NoDocs
  /\ branch = NoBranches
  /\ session = NoSession
  /\ review = NoReview

\* What a call remembers of the call before it, when no external step came
\* between the two.
Chain(call) ==
  [call EXCEPT !.prevFromEmpty = last.result \in {"uptodate", "synced"} /\ last.fromEmpty,
               !.sameAsPrev = /\ last.result \in {"noop", "uptodate", "synced"}
                              /\ last.fnames = call.fnames
                              /\ last.hasRoot = call.hasRoot]

\* discoverer.refresh_index(fnames, git_root)
RefreshIndex ==
  \E fnames \in SUBSET Listed, hasRoot \in BOOLEAN :
  \E r \in {RefreshIndexCall(index, cache, fnames, hasRoot)} :
    /\ WithinGen(r.index.docs)
    /\ index' = r.index
    /\ cache' = r.cache
    /\ last' = Chain([r.call EXCEPT !.op = "refresh", !.held = index.loaded])
    /\ UNCHANGED <<fs, clock, ignoreFile, verbose>>
    /\ UNCHANGED <<queryVars, stepVars, branchVars, review>>

\* discoverer.load_or_create_index(fnames, git_root)
LoadOrCreateIndex ==
  \E fnames \in SUBSET Listed, hasRoot \in BOOLEAN,
     rmOk \in (IF cache.state = "corrupt" THEN BOOLEAN ELSE {TRUE}) :
  \E l \in {LoadStep(index, cache, rmOk)} :
  \E r \in {RefreshIndexCall(l.index, l.cache, fnames, hasRoot)} :
    /\ WithinGen(r.index.docs)
    /\ index' = r.index
    /\ cache' = r.cache
    /\ last' = Chain([r.call EXCEPT !.op = "load", !.held = index.loaded,
                                    !.loadStep = l.step, !.restored = l.index,
                                    !.loadCache = l.cache.state,
                                    !.out = l.out \o @])
    /\ UNCHANGED <<fs, clock, ignoreFile, verbose>>
    /\ UNCHANGED <<queryVars, stepVars, branchVars, review>>

\* A new session: ContextDiscoverer.__init__ (lines 13-17)
NewDiscoverer ==
  /\ index.loaded
  /\ index' = NoIndex
  /\ last' = NoCall
  /\ retriever' = NoRetriever
  /\ qhist' = NoQueries
  /\ UNCHANGED <<fs, clock, ignoreFile, verbose, cache>>
  /\ UNCHANGED <<stepVars, branchVars, review>>

\* The environment: an editor writes a file of the repository.
WriteFile ==
  \E f \in Listed, c \in ContentNames :
    /\ c \in Writable[f]
    /\ clock < MaxTime
    /\ clock' = clock + 1
    /\ fs' = [fs EXCEPT ![f] = [exists |-> TRUE, mtime |-> clock + 1, content |-> c]]
    /\ last' = NoCall
    /\ UNCHANGED <<ignoreFile, verbose, index, cache>>
    /\ UNCHANGED <<queryVars, stepVars, branchVars, review>>

\* The environment: a file of the repository is deleted.
RemoveFile ==
  \E f \in Listed :
    /\ fs[f].exists
    /\ clock < MaxTime
    /\ clock' = clock + 1
    /\ fs' = [fs EXCEPT ![f] = NoFile]
    /\ last' = NoCall
    /\ UNCHANGED <<ignoreFile, verbose, index, cache>>
    /\ UNCHANGED <<queryVars, stepVars, branchVars, review>>

\* The environment: .aiderignore is created, edited, removed or locked.
EditIgnore ==
  \E ig \in IgnoreFiles :
    /\ ig # ignoreFile
    /\ clock < MaxTime
    /\ clock' = clock + 1
    /\ ignoreFile' = ig
    /\ last' = NoCall
    /\ UNCHANGED <<fs, verbose, index, cache>>
    /\ UNCHANGED <<queryVars, stepVars, branchVars, review>>

\* The environment: the cache directory is damaged or removed.
DamageCache ==
  \E st \in {"corrupt", "missing"} :
    /\ cache.state = "valid"
    /\ cache' = [state |-> st, docs |-> NoDocs]
    /\ last' = NoCall
    /\ UNCHANGED <<fs, clock, ignoreFile, verbose, index>>
    /\ UNCHANGED <<queryVars, stepVars, branchVars, review>>

Next ==
  \/ RefreshIndex
  \/ LoadOrCreateIndex
  \/ NewDiscoverer
  \/ WriteFile
  \/ RemoveFile
  \/ EditIgnore
  \/ DamageCache

Spec == Init /\ [][Next]_vars

TypeOK ==
  /\ clock \in 1..MaxTime
  /\ verbose \in BOOLEAN
  /\ ignoreFile \in IgnoreFiles
  /\ cache.state \in {"missing", "valid", "corrupt"}
  /\ index.loaded \in BOOLEAN


\* ------------------------------------------------------------ observations
IsCall == last.op \in {"refresh", "load"}

\* the refresh_index of the last call ran its plan computation
Synced == last.result = "synced"

Ids == RefDocIds(index.docs)

Positions(kind, f) == {i \in 1..Len(last.ops) : last.ops[i] = <<kind, f>>}

Inserted == {f \in Files : Positions("ins", f) # {}}

Logged(f, o) == \E i \in 1..Len(last.log) : last.log[i] = <<f, o>>

\* The file as it is on disk can be indexed: it exists, opens, has no null
\* byte in its first 1 KiB, reads as non-empty text and insert accepts it.
Indexable(f) ==
  LET c == ContentOf[fs[f].content] IN
  /\ fs[f].exists /\ c.openOk /\ c.decodes /\ c.size > 0 /\ c.insertOk
  /\ ~(c.nullAt \in 0..(ChunkSize - 1))

PlanEmpty(call) == call.new = {} /\ call.deleted = {} /\ call.modified = <<>>


\* ------------------------------------------------------------------ claims
\* C1. Convergence: starting from an empty index, after refresh_index(F1)
\* followed by refresh_index(F2) the set of document ids equals F2.  Stated
\* for two calls with no external step between them, F2 non-empty and every
\* file of F2 indexable.
C1_Convergence ==
  (/\ IsCall
   /\ last.result \in {"uptodate", "synced"}
   /\ last.prevFromEmpty
   /\ \A f \in last.fnames : Indexable(f))
  => Ids = last.fnames

\* C2. Idempotence: a second refresh_index with the same file list and no
\* change of any file in between inserts nothing, deletes nothing and reports
\* that the index is up to date.  Stated for a verbose discoverer, a
\* non-empty list and listed files that are all indexable.
C2_Idempotence ==
  (/\ last.op = "refresh"
   /\ last.sameAsPrev
   /\ last.result \in {"uptodate", "synced"}
   /\ verbose
   /\ \A f \in last.fnames : Indexable(f))
  => (last.ops = <<>> /\ last.out = <<"uptodate">>)

\* C3. Empty-list fallback: refresh_index with an empty file list syncs
\* against the files the repository walk accepts, so afterwards no indexed
\* file is one the walk rejects.
C3_EmptyListFallback ==
  (/\ IsCall
   /\ last.fnames = {}
   /\ last.hasRoot
   /\ index.loaded)
  => \A f \in Ids : WalkAccepts(f, LoadIgnorePatterns(ignoreFile))

\* C4 as stated. Every modified file is removed and re-inserted exactly once,
\* removal first, and the index then holds exactly one document for it with
\* the new mtime.
C4_Original ==
  Synced =>
    \A f \in SeqSet(last.modified) :
      /\ Cardinality(Positions("del", f)) = 1
      /\ Cardinality(Positions("ins", f)) = 1
      /\ \A i \in Positions("del", f), j \in Positions("ins", f) : i < j
      /\ Len(index.docs[f]) = 1
      /\ index.docs[f][1].mtime = fs[f].mtime

\* C4 amended. Every modified file is removed exactly once; if it is
\* indexable it is re-inserted exactly once after the removal and the index
\* then holds exactly one document for it, with the new mtime and content;
\* if it is not indexable it is not re-inserted and the index holds no
\* document for it.
C4_ModifiedReindexedOnce ==
  Synced =>
    \A f \in SeqSet(last.modified) :
      /\ Cardinality(Positions("del", f)) = 1
      /\ \A i \in Positions("del", f), j \in Positions("ins", f) : i < j
      /\ IF Indexable(f)
         THEN /\ Cardinality(Positions("ins", f)) = 1
              /\ index.docs[f] = << [mtime |-> fs[f].mtime, content |-> fs[f].content] >>
         ELSE /\ Positions("ins", f) = {}
              /\ index.docs[f] = <<>>

\* A sync re-indexed a modified file whose index entry had an older mtime.
C4_Witness ==
  /\ Synced
  /\ \E f \in SeqSet(last.modified) :
       /\ Indexable(f)
       /\ fs[f].mtime > 1
       /\ Positions("ins", f) # {}

\* C5. No document in the index (or in the persisted index) was inserted
\* from a file whose content was empty or unreadable, and no sync inserts a
\* file that is empty or unreadable at that time.
C5_NoEmptyOrUnreadableInserted ==
  LET Readable(name) ==
        ContentOf[name].openOk /\ ContentOf[name].decodes /\ ContentOf[name].size > 0
  IN
  /\ \A f \in Files : \A i \in 1..Len(index.docs[f]) : Readable(index.docs[f][i].content)
  /\ \A f \in Files : \A i \in 1..Len(cache.docs[f]) : Readable(cache.docs[f][i].content)
  /\ \A f \in Inserted : Readable(fs[f].content)

\* A sync went over a listed file that had been indexed and is now empty or
\* undecodable, next to a new file that it did insert.
C5_Witness ==
  /\ Synced
  /\ \E f \in last.new : f \in Inserted
  /\ \E f \in SeqSet(last.modified) : Logged(f, "nocontent")


\* C6. Ignore patterns apply only to the repository walk: the walk never
\* inserts a file whose relative path matches a pattern of .aiderignore, and
\* a matching file that is explicitly in the file list and indexable is in
\* the index after the sync.
C6_IgnoreOnlyInWalk ==
  LET Ignored(f) == MatchesAny(RelPath[f], LoadIgnorePatterns(ignoreFile)) IN
  /\ (Synced /\ last.walked) => \A f \in Inserted : ~Ignored(f)
  /\ (IsCall /\ last.result \in {"uptodate", "synced"}) =>
       \A f \in last.fnames : (Ignored(f) /\ Indexable(f)) => f \in Ids

\* The walk ran, inserted a file and left out an existing, indexable file
\* because it matches an ignore pattern.
C6_Witness ==
  /\ Synced
  /\ last.walked
  /\ Inserted # {}
  /\ \E f \in Listed :
       /\ MatchesAny(RelPath[f], LoadIgnorePatterns(ignoreFile))
       /\ Indexable(f)
       /\ f \notin SeqSet(last.toIndex)

\* C7. A failing read or insert of one file does not abort the sync: every
\* file of files_to_index is still gone through, every indexable one is
\* inserted, the index is persisted and the call returns normally.
C7_FailuresDoNotAbort ==
  /\ Synced =>
       /\ [i \in 1..Len(last.log) |-> last.log[i][1]] = last.toIndex
       /\ (last.new \cup SeqSet(last.modified)) \subseteq SeqSet(last.toIndex)
       /\ \A f \in SeqSet(last.toIndex) : Indexable(f) => f \in Inserted
       /\ last.persisted
       /\ cache = [state |-> "valid", docs |-> index.docs]
  /\ (IsCall /\ (last.held \/ last.op = "load")) => last.result # "raised"

\* A sync in which a read or an insert failed for one file and a file after
\* it was inserted.
C7_Witness ==
  /\ Synced
  /\ \E i, j \in 1..Len(last.log) :
       /\ i < j
       /\ last.log[i][2] \in {"readerror", "inserterror"}
       /\ last.log[j][2] = "inserted"

C9_EmptyPlanTouchesNothing ==
  [][(/\ last'.op \in {"refresh", "load"}
      /\ last'.result \in {"uptodate", "synced"}
      /\ PlanEmpty(last')) =>
       /\ last'.ops = <<>>
       /\ ~last'.persisted
       /\ index' = (IF last'.op = "load" THEN last'.restored ELSE index)
       /\ (last'.op = "refresh" => cache' = cache)
       /\ (last'.op = "load" => cache'.state = last'.loadCache)]_vars

\* An up-to-date sync of a non-empty index while the cache directory is not
\* there: it stays away.
C9_Witness ==
  /\ last.op = "refresh"
  /\ last.result = "uptodate"
  /\ Ids # {}
  /\ cache.state = "missing"

\* C10. The repository walk never inserts a file that has a null byte in its
\* first 1 KiB.
C10_WalkSkipsBinary ==
  (Synced /\ last.walked) =>
    \A f \in Inserted :
      ~(ContentOf[fs[f].content].nullAt \in 0..(ChunkSize - 1))

\* The walk came across a file with a null byte in its first 1 KiB and
\* inserted another file.
C10_Witness ==
  /\ Synced
  /\ last.walked
  /\ Inserted # {}
  /\ \E f \in SeqSet(last.toIndex) :
       /\ ContentOf[fs[f].content].nullAt \in 0..(ChunkSize - 1)
       /\ Logged(f, "binary")


\* The index refresh_index started from in the call recorded in call, given
\* the index held before the call.
\* The discoverer built with verbose=False (line 13): the plan of a sync does
\* not depend on what is reported.
InitQuiet == Init /\ ~verbose

SpecQuiet == InitQuiet /\ [][Next]_vars

EntryDocs(call, held) ==
  IF call.op = "load" THEN call.restored.docs ELSE held.docs

\* C13. The plan consists of three pairwise disjoint path sets: new is
\* current minus indexed, deleted is indexed minus current, modified holds,
\* once each, the paths of current and indexed that exist with an mtime
\* greater than the stored one.
C13_PlanSets ==
  [][\A call \in {last'} :
      (call.op \in {"refresh", "load"} /\ call.result \in {"uptodate", "synced"}) =>
       \A pre \in {EntryDocs(call, index)} :
       /\ call.new \subseteq Files /\ call.deleted \subseteq Files
       /\ \A i, j \in 1 .. Len(call.modified) :
            call.modified[i] = call.modified[j] => i = j
       /\ \A f \in Files :
            LET current  == f \in call.fnames
                indexed  == pre[f] # <<>>
                new      == f \in call.new
                deleted  == f \in call.deleted
                modified == \E i \in 1 .. Len(call.modified) : call.modified[i] = f
            IN /\ new <=> (current /\ ~indexed)
               /\ deleted <=> (indexed /\ ~current)
               /\ modified <=> (/\ current /\ indexed
                                /\ fs[f].exists
                                /\ fs[f].mtime > pre[f][1].mtime)
               /\ ~(new /\ deleted) /\ ~(new /\ modified) /\ ~(deleted /\ modified)]_vars

\* A sync whose plan has a new file next to a modified one.
C13_Witness ==
  /\ Synced
  /\ last.new # {}
  /\ last.modified # <<>>

C15_MissingFileLeftAlone ==
  [][\A call \in {last'} :
      (call.op \in {"refresh", "load"} /\ call.result \in {"uptodate", "synced"}) =>
       \A pre \in {EntryDocs(call, index)} :
       LET Indexed(f) == pre[f] # <<>>
           Gone(f)    == f \in call.fnames /\ Indexed(f) /\ ~fs[f].exists
       IN /\ \A f \in Files : Gone(f) =>
               /\ \A i \in 1 .. Len(call.modified) : call.modified[i] # f
               /\ \A i \in 1 .. Len(call.ops) : call.ops[i][2] # f
               /\ index'.docs[f] = pre[f]
          /\ (\A f \in Files :
               /\ Indexed(f) <=> f \in call.fnames
               /\ Indexed(f) => (Gone(f) \/ fs[f].mtime <= pre[f][1].mtime))
             => call.result = "uptodate"]_vars

\* An up-to-date sync of a list with an indexed file that is gone from disk.
C15_Witness ==
  /\ IsCall
  /\ last.result = "uptodate"
  /\ \E f \in last.fnames : ~fs[f].exists /\ f \in Ids

\* C16. insert is never called for a path that is in the index: the index
\* never holds two documents for one path.
C16_OneDocumentPerPath ==
  \A f \in Files : Len(index.docs[f]) <= 1

\* C17. With a non-empty file list every path a call inserts is in the list,
\* and afterwards every indexed path is in the list.
C17_OnlyListedInserted ==
  (IsCall /\ Synced /\ last.fnames # {}) =>
    (Inserted \subseteq last.fnames /\ Ids \subseteq last.fnames)


\* ------------------------------------------------------------------ query
\* query(query_text, top_k=5) (line 239)
DefaultTopK == 5

MaxTopK == 2

MaxQueries == 3

TopKs == (1 .. MaxTopK) \cup {DefaultTopK}

\* Variant: the retriever is built again when top_k differs from the one it
\* was built with.
QueryCallRebuild(idx, ret, topK) ==
  IF ~idx.loaded THEN
    [retriever |-> ret, built |-> FALSE, used |-> 0, ret |-> "empty"]
  ELSE
    LET r == IF ~ret.made \/ ret.topK # topK
             THEN [made |-> TRUE, topK |-> topK] ELSE ret
    IN [retriever |-> r, built |-> r # ret, used |-> r.topK, ret |-> "results"]

\* query (lines 239-259): no index, an empty list (lines 240-241); the
\* retriever is built only while self.retriever is None (lines 243-244) and
\* the retrieval goes through self.retriever (line 246). What the retrieval
\* finds is llama_index's business and is not modelled.
QueryCall(idx, ret, topK) ==
  IF ~idx.loaded THEN
    [retriever |-> ret, built |-> FALSE, used |-> 0, ret |-> "empty"]
  ELSE
    LET r == IF ~ret.made THEN [made |-> TRUE, topK |-> topK] ELSE ret
    IN [retriever |-> r, built |-> ~ret.made, used |-> r.topK, ret |-> "results"]

\* discoverer.query(text, top_k)
Query ==
  \E topK \in TopKs :
  \E q \in {QueryCall(index, retriever, topK)} :
    /\ qhist.n < MaxQueries
    /\ retriever' = q.retriever
    /\ qhist' = [n |-> qhist.n + 1,
                 builds |-> qhist.builds + (IF q.built THEN 1 ELSE 0),
                 first |-> IF index.loaded /\ qhist.first = 0 THEN topK
                           ELSE qhist.first,
                 lastQ |-> [topK |-> topK, hadIndex |-> index.loaded,
                            built |-> q.built, used |-> q.used, ret |-> q.ret]]
    /\ UNCHANGED <<coreVars, stepVars, branchVars, review>>

\* Queries on a discoverer whose index is loaded, reloaded or dropped with
\* the session.
NextQ ==
  \/ Query
  \/ LoadOrCreateIndex
  \/ NewDiscoverer

SpecQ == Init /\ [][NextQ]_vars

\* C11. On one discoverer the retriever is constructed at most once, by the
\* first query that finds an index loaded, and with that query's top_k; every
\* later query retrieves through that retriever, whatever top_k it passes. A
\* query that finds no index returns the empty list and constructs nothing.
C11_RetrieverBuiltOnce ==
  /\ qhist.builds <= 1
  /\ retriever.made <=> qhist.first # 0
  /\ retriever.made => retriever.topK = qhist.first /\ qhist.builds = 1
  /\ qhist.n > 0 =>
       LET q == qhist.lastQ IN
       /\ ~q.hadIndex => q.ret = "empty" /\ ~q.built /\ q.used = 0
       /\ q.hadIndex => q.ret = "results" /\ q.used = qhist.first
       /\ q.built => q.used = q.topK

\* The last of several queries passed another top_k than the default the
\* first one built the retriever with, and went through that retriever.
C11_Witness ==
  /\ qhist.n = MaxQueries
  /\ qhist.lastQ.hadIndex /\ ~qhist.lastQ.built
  /\ qhist.lastQ.topK # qhist.lastQ.used
  /\ qhist.first = DefaultTopK


\* --------------------------------------------------------- session branches
\* The implementation (Coder.init_branch_repo, save_branch, checkout_branch,
\* get_current_branch, list_branches, /branch delete) is not part of the
\* sources at hand; this part is modelled after what test_branching.py expects
\* of it.
MaxMsgs == 2

Roles == {"user", "assistant"}

BranchFiles == {"foo.py", "bar.py"}

Snapshot(ses, dirty) ==
  [exists |-> TRUE, messages |-> ses.messages, files |-> ses.files,
   dirty |-> dirty]

Restore(snap) == [messages |-> snap.messages, files |-> snap.files]

\* list_branches()
ListBranches(br) == {b \in BranchNames : br.saved[b].exists}

\* Variant: checkout_branch loads the target without saving the state of the
\* branch it leaves.
CheckoutCallNoAutoSave(br, ses, x) ==
  [branch |-> [current |-> x, saved |-> br.saved,
               left |-> [br.left EXCEPT
                           ![br.current] = Snapshot(ses, Restore(br.saved[br.current]) # ses),
                           ![x] = NoSnap],
               last |-> [op |-> "checkout", arg |-> x,
                         expect |-> IF x = br.current THEN NoSnap ELSE br.left[x]]],
   session |-> Restore(br.saved[x])]

\* checkout_branch(x): the state of the current branch is saved, then the
\* state of x is loaded and x becomes the current branch.
CheckoutCall(br, ses, x) ==
  LET saved == [br.saved EXCEPT ![br.current] = Snapshot(ses, FALSE)] IN
  [branch |-> [current |-> x, saved |-> saved,
               left |-> [br.left EXCEPT
                           ![br.current] = Snapshot(ses, Restore(br.saved[br.current]) # ses),
                           ![x] = NoSnap],
               last |-> [op |-> "checkout", arg |-> x,
                         expect |-> IF x = br.current THEN NoSnap ELSE br.left[x]]],
   session |-> Restore(saved[x])]

\* coder.init_branch_repo(): the default branch with the state at hand.
InitBranchRepo ==
  /\ branch.current = "none"
  /\ branch' = [branch EXCEPT !.current = "main",
                              !.saved["main"] = Snapshot(session, FALSE)]
  /\ UNCHANGED <<session, coreVars, queryVars, stepVars, review>>

\* The chat goes on: cur_messages.append(...)
Chat ==
  \E role \in Roles :
    /\ branch.current # "none"
    /\ Len(session.messages) < MaxMsgs
    /\ session' = [session EXCEPT !.messages = Append(@, role)]
    /\ branch' = [branch EXCEPT !.last = NoBranchOp]
    /\ UNCHANGED <<coreVars, queryVars, stepVars, review>>

\* abs_fnames.add(...) and /drop
EditFiles ==
  \E f \in BranchFiles :
    /\ branch.current # "none"
    /\ session' = [session EXCEPT !.files = IF f \in @ THEN @ \ {f} ELSE @ \cup {f}]
    /\ branch' = [branch EXCEPT !.last = NoBranchOp]
    /\ UNCHANGED <<coreVars, queryVars, stepVars, review>>

\* coder.save_branch(name) with a new name creates the branch from the state
\* at hand and switches to it; coder.save_branch() saves to the current one.
SaveBranch ==
  \E x \in BranchNames :
    /\ branch.current # "none"
    /\ x = branch.current \/ x \notin ListBranches(branch)
    /\ branch' = [current |-> x,
                  saved |-> [branch.saved EXCEPT ![x] = Snapshot(session, FALSE)],
                  left |-> [branch.left EXCEPT ![x] = NoSnap,
                                               ![branch.current] = NoSnap],
                  last |-> [op |-> "save", arg |-> x, expect |-> NoSnap]]
    /\ UNCHANGED <<session, coreVars, queryVars, stepVars, review>>

\* coder.checkout_branch(x), /branch checkout x
CheckoutBranch ==
  \E x \in BranchNames :
  \E c \in {CheckoutCall(branch, session, x)} :
    /\ branch.current # "none"
    /\ x \in ListBranches(branch)
    /\ branch' = c.branch
    /\ session' = c.session
    /\ UNCHANGED <<coreVars, queryVars, stepVars, review>>

\* /branch delete x
DeleteBranch ==
  \E x \in BranchNames :
    /\ x \in ListBranches(branch)
    /\ x # branch.current
    /\ branch' = [branch EXCEPT !.saved[x] = NoSnap, !.left[x] = NoSnap,
                                !.last = [op |-> "delete", arg |-> x,
                                          expect |-> NoSnap]]
    /\ UNCHANGED <<session, coreVars, queryVars, stepVars, review>>

NextB ==
  \/ InitBranchRepo
  \/ Chat
  \/ EditFiles
  \/ SaveBranch
  \/ CheckoutBranch
  \/ DeleteBranch

SpecB == Init /\ [][NextB]_vars

\* coder.get_current_branch()
GetCurrentBranch == branch.current

\* C12. After checkout_branch(X) the current branch is X; and when X had been
\* left by an earlier checkout_branch, with or without unsaved changes, the
\* messages and the file set are again exactly what they were when X was left.
C12_CheckoutRestores ==
  branch.last.op = "checkout" =>
    /\ GetCurrentBranch = branch.last.arg
    /\ branch.last.expect.exists =>
         session = Restore(branch.last.expect)

\* A checkout came back to a branch that had been left with unsaved messages
\* and files.
C12_Witness ==
  /\ branch.last.op = "checkout"
  /\ branch.last.expect.exists /\ branch.last.expect.dirty
  /\ Len(session.messages) = MaxMsgs
  /\ session.files # {}


\* ------------------------------------------ refresh_index, statement by step
\* The same call as RefreshIndexCall, cut where another process can write
\* between two reads of a file: plan and deletions (lines 97-198), then per
\* file the reads of the content (lines 201-213), then the read of the mtime
\* and the insert (lines 215-226), then the persist (lines 231-234). wver
\* keeps, for every document of the index, the mtime the file had when the
\* document's content was read.
DropVers(vers, S) == [f \in Files |-> IF f \in S THEN <<>> ELSE vers[f]]

\* load_or_create_index(fnames, git_root) up to the start of the index loop
StepBegin ==
  \E fnames \in (SUBSET Listed) \ {{}}, hasRoot \in BOOLEAN :
  \E l \in {LoadStep(index, cache, TRUE)} :
  \E plan \in {ComputePlan(l.index.docs, fnames, WalkOrder)} :
    /\ wpc = "idle"
    /\ cache' = l.cache
    /\ IF IsUpToDate(plan.new, plan.deleted, plan.modified) THEN
         /\ index' = l.index
         /\ UNCHANGED <<wpc, wtodo, wver>>
       ELSE
         LET gone   == DocsToDelete(plan.deleted, plan.modified)
             listed == InOrder(plan.new, WalkOrder) \o plan.modified
             pats   == LoadIgnorePatterns(ignoreFile)
             Acc(f) == WalkAccepts(f, pats)
         IN /\ index' = [loaded |-> TRUE, docs |-> DeleteRefDocs(l.index.docs, gone)]
            /\ wver' = DropVers(wver, gone)
            /\ wtodo' = IF listed = <<>> /\ hasRoot THEN SelectSeq(WalkOrder, Acc)
                        ELSE listed
            /\ wpc' = "loop"
    /\ UNCHANGED <<fs, clock, ignoreFile, verbose, last, wgot>>
    /\ UNCHANGED <<queryVars, branchVars, review>>

\* lines 201-213 for the next file: isfile, the null-byte check, read_text
StepRead ==
  /\ wpc = "loop"
  /\ wtodo # <<>>
  /\ LET f == Head(wtodo) IN
     IF FileOutcome(f) \in {"missing", "readerror", "binary", "nocontent"} THEN
       /\ wtodo' = Tail(wtodo)
       /\ UNCHANGED <<wpc, wgot>>
     ELSE
       /\ wgot' = [content |-> fs[f].content, ver |-> fs[f].mtime]
       /\ wpc' = "got"
       /\ UNCHANGED wtodo
  /\ UNCHANGED <<coreVars, wver, queryVars, branchVars, review>>

\* lines 215-229: os.path.getmtime now, then the insert of the content read
\* before; a file removed meanwhile or a failing insert raises and is skipped.
InsertRead(docs, vers, f, got) ==
  IF ~fs[f].exists \/ ~ContentOf[got.content].insertOk THEN
    [docs |-> docs, vers |-> vers]
  ELSE
    [docs |-> InsertDoc(docs, f, [mtime |-> fs[f].mtime, content |-> got.content]),
     vers |-> [vers EXCEPT ![f] = Append(@, got.ver)]]

StepInsert ==
  /\ wpc = "got"
  /\ \E r \in {InsertRead(index.docs, wver, Head(wtodo), wgot)} :
    /\ WithinGen(r.docs)
    /\ index' = [index EXCEPT !.docs = r.docs]
    /\ wver' = r.vers
    /\ wtodo' = Tail(wtodo)
    /\ wgot' = NoContent
    /\ wpc' = "loop"
    /\ UNCHANGED <<fs, clock, ignoreFile, verbose, cache, last>>
    /\ UNCHANGED <<queryVars, branchVars, review>>

\* lines 231-234: persist
StepEnd ==
  /\ wpc = "loop"
  /\ wtodo = <<>>
  /\ cache' = Persist(index.docs)
  /\ wpc' = "idle"
  /\ UNCHANGED <<fs, clock, ignoreFile, verbose, index, last>>
  /\ UNCHANGED <<wtodo, wgot, wver, queryVars, branchVars, review>>

\* The refresh with an editor writing listed files at any point of it.
NextW ==
  \/ StepBegin
  \/ StepRead
  \/ StepInsert
  \/ StepEnd
  \/ WriteFile

SpecW == Init /\ [][NextW]_vars

\* C18. With a writer saving listed files while refresh_index runs, the mtime
\* stored with a document is never newer than the mtime the file had when the
\* document's content was read.
C18_StoredMtimeNotNewer ==
  \A f \in Files :
    \A i \in 1 .. Len(index.docs[f]) :
      index.docs[f][i].mtime <= wver[f][i]


\* ------------------------------------------------ /review-pr (review_pr.py)
\* "github.com" (line 24)
GitHubHost == <<"g", "i", "t", "h", "u", "b", ".", "c", "o", "m">>

\* sub in s
Contains(s, sub) ==
  \E k \in 0 .. (Len(s) - Len(sub)) : SubSeq(s, k + 1, k + Len(sub)) = sub

\* Remote URLs: GitHub over ssh, another host, and a spelling that the
\* case-sensitive test of line 24 does not match.
RemoteUrls ==
  { <<"g", "i", "t", "@">> \o GitHubHost \o <<":", "o", "/", "r">>,
    <<"g", "i", "t", "l", "a", "b", ".", "c", "o", "m", "/", "o", "/", "r">>,
    <<"G", "i", "t", "H", "u", "b", ".", "c", "o", "m", "/", "o", "/", "r">> }

\* The text after the command name.
ReviewArgs == { <<>>, <<" ">>, <<" ", "7", " ">>, <<"7">> }

\* What subprocess.run(["gh", "pr", "diff", ...]) does: raises
\* FileNotFoundError, raises something else, or completes with a return code
\* and a stdout.
GhRuns ==
  [raises : {"fnf", "other"}, returncode : {0}, stdout : {""}]
  \cup [raises : {"no"}, returncode : {0, 1}, stdout : {"", "diff"}]

\* .aider/pr_review_checklist.md: not there, with text, empty, there but
\* read_text raises, or in a directory that may not be searched, where
\* Path.exists() raises PermissionError (pathlib passes on every OSError but
\* ENOENT, ENOTDIR, EBADF and ELOOP).
Checklists == {"absent", "custom", "empty", "unreadable", "noaccess"}

ReviewInputs ==
  [gh : BOOLEAN, args : ReviewArgs, hasRepo : {TRUE},
   remotes : SUBSET RemoteUrls, run : GhRuns, checklist : Checklists]
  \cup [gh : BOOLEAN, args : ReviewArgs, hasRepo : {FALSE},
        remotes : {{}}, run : GhRuns, checklist : Checklists]

\* check_gh_installed (lines 6-12)
CheckGhInstalled(inp) ==
  [ok |-> inp.gh, errors |-> IF inp.gh THEN <<>> ELSE <<"gh not found">>]

\* get_pr_diff (lines 15-46): isNone is a returned None, ran whether
\* subprocess.run was called.
GetPrDiff(inp) ==
  IF ~inp.hasRepo THEN
    [isNone |-> TRUE, text |-> "", ran |-> FALSE, errors |-> <<"no repo">>]
  ELSE IF ~\E u \in inp.remotes : Contains(u, GitHubHost) THEN
    [isNone |-> TRUE, text |-> "", ran |-> FALSE, errors |-> <<"not github">>]
  ELSE IF inp.run.raises = "fnf" THEN
    [isNone |-> TRUE, text |-> "", ran |-> TRUE, errors |-> <<>>]
  ELSE IF inp.run.raises = "other" THEN
    [isNone |-> TRUE, text |-> "", ran |-> TRUE, errors |-> <<"unexpected">>]
  ELSE IF inp.run.returncode # 0 THEN
    [isNone |-> TRUE, text |-> "", ran |-> TRUE, errors |-> <<"gh failed">>]
  ELSE
    [isNone |-> FALSE, text |-> inp.run.stdout, ran |-> TRUE, errors |-> <<>>]

\* cmd_review_pr (lines 49-90). ret is "none" for a returned None, "prompt"
\* for a returned prompt (of pr, instructions and diff), "raised" when an
\* exception leaves the function.
CmdReviewPrCall(inp) ==
  LET gh   == CheckGhInstalled(inp)
      pr   == Strip(inp.args)
      none == [ret |-> "none", pr |-> <<>>, instructions |-> "", diff |-> "",
               ran |-> FALSE, errors |-> <<>>]
  IN
  IF ~gh.ok THEN [none EXCEPT !.errors = gh.errors]
  ELSE IF pr = <<>> THEN [none EXCEPT !.errors = <<"no pr">>]
  ELSE
    LET d == GetPrDiff(inp) IN
    IF d.isNone \/ d.text = "" THEN
      [none EXCEPT !.ran = d.ran, !.errors = d.errors]
    ELSE IF inp.checklist = "noaccess" THEN
      [none EXCEPT !.ret = "raised", !.ran = d.ran]
    ELSE
      [ret |-> "prompt", pr |-> pr,
       instructions |-> IF inp.checklist = "custom" THEN "custom" ELSE "default",
       diff |-> d.text, ran |-> d.ran,
       errors |-> IF inp.checklist = "unreadable" THEN <<"checklist">> ELSE <<>>]

\* /review-pr <args>
CmdReviewPr ==
  \E inp \in ReviewInputs :
    /\ ~review.done
    /\ review' = [done |-> TRUE, input |-> inp, result |-> CmdReviewPrCall(inp)]
    /\ UNCHANGED <<coreVars, queryVars, stepVars, branchVars>>

\* The next command line.
ReviewAgain ==
  /\ review.done
  /\ review' = NoReview
  /\ UNCHANGED <<coreVars, queryVars, stepVars, branchVars>>

NextP ==
  \/ CmdReviewPr
  \/ ReviewAgain

SpecP == Init /\ [][NextP]_vars

\* The conditions the claim names: gh installed, a non-empty stripped
\* argument, a repository with a remote on github.com, and gh pr diff
\* exiting 0 with output.
ReviewConditions(inp) ==
  /\ inp.gh
  /\ Strip(inp.args) # <<>>
  /\ inp.hasRepo
  /\ \E u \in inp.remotes : Contains(u, GitHubHost)
  /\ inp.run.raises = "no" /\ inp.run.returncode = 0 /\ inp.run.stdout # ""

\* C19. cmd_review_pr returns a prompt holding the diff exactly when the
\* conditions hold; otherwise it returns None and nothing is raised; and
\* subprocess.run is not called when gh is missing, the argument is empty,
\* there is no repository or no remote on github.com.
C19_PromptIffConditions ==
  review.done =>
    LET inp == review.input  res == review.result IN
    /\ res.ret = "prompt" <=> ReviewConditions(inp)
    /\ res.ret = "prompt" => res.diff = inp.run.stdout /\ res.pr = Strip(inp.args)
    /\ ~ReviewConditions(inp) => res.ret = "none"
    /\ ( \/ ~inp.gh
         \/ Strip(inp.args) = <<>>
         \/ ~inp.hasRepo
         \/ ~\E u \in inp.remotes : Contains(u, GitHubHost) ) => ~res.ran

====
